---- MODULE Spec2Model ----
(***************************************************************************)
(* gravity-tui: two producer threads (keyboard, redraw ticker) feed one    *)
(* unbounded mpsc channel; the main thread owns App (planets, exit, rx)    *)
(* and runs the loop draw / recv / handle until exit.                      *)
(*                                                                         *)
(* f64 values are modelled in fixed point (Scale units per 1.0) with the   *)
(* IEEE non-finite values NaN and +-inf kept as separate kinds, so that    *)
(* 0.0/0.0 in Vec2::normalized is NaN and spreads as in the code.          *)
(***************************************************************************)
EXTENDS Integers, Sequences, FiniteSets, TLC

(* ---------------------------------------------------------------- bounds *)

\* Input occurrences the terminal delivers during the observed run.
MaxKeys == 2

\* Sleeps of the redraw ticker that end during the observed run.
MaxTicks == 2

(* ------------------------------------------------------------- f64 model *)

\* Fixed-point units per 1.0 (the resolution standing in for f64's).
Scale == 1000

Fin(n) == [k |-> "fin", v |-> n]
NaN == [k |-> "nan", v |-> 0]
Inf(s) == [k |-> "inf", v |-> s]

IsFinite(a) == a.k = "fin"

Sgn(n) == IF n > 0 THEN 1 ELSE IF n < 0 THEN -1 ELSE 0

Abs(n) == IF n < 0 THEN -n ELSE n

\* Division rounding toward zero: like f64 rounding, symmetric under negation.
SDiv(a, b) == Sgn(a) * Sgn(b) * (Abs(a) \div Abs(b))

\* "let x = v; F(x)": v is computed once and F works on its value, as the
\* code's let bindings and in-place updates do
With(v, F(_)) == CHOOSE r \in {F(x) : x \in {v}} : TRUE

RECURSIVE SqrtSearch(_, _, _)
SqrtSearch(n, lo, hi) ==
    IF lo >= hi THEN lo
    ELSE With((lo + hi + 1) \div 2, LAMBDA mid :
             IF mid * mid <= n THEN SqrtSearch(n, mid, hi)
             ELSE SqrtSearch(n, lo, mid - 1))

\* Floor of the square root of n >= 0.
ISqrt(n) == SqrtSearch(n, 0, IF n < 46340 THEN n ELSE 46340)

\* f64 + f64
FAdd(a, b) ==
    IF a.k = "nan" \/ b.k = "nan" THEN NaN
    ELSE IF a.k = "inf" /\ b.k = "inf" THEN (IF a.v = b.v THEN a ELSE NaN)
    ELSE IF a.k = "inf" THEN a
    ELSE IF b.k = "inf" THEN b
    ELSE Fin(a.v + b.v)

FNeg(a) == IF a.k = "nan" THEN NaN ELSE [k |-> a.k, v |-> -a.v]

\* f64 - f64
FSub(a, b) == With(FNeg(b), LAMBDA nb : FAdd(a, nb))

\* f64 * f64
FMul(a, b) ==
    IF a.k = "nan" \/ b.k = "nan" THEN NaN
    ELSE IF a.k = "inf" \/ b.k = "inf"
         THEN (IF Sgn(a.v) * Sgn(b.v) = 0 THEN NaN ELSE Inf(Sgn(a.v) * Sgn(b.v)))
    ELSE With(a.v * b.v, LAMBDA p : Fin(SDiv(p, Scale)))

\* f64 / f64 (the divisors of this program are never negative zero)
FDiv(a, b) ==
    IF a.k = "nan" \/ b.k = "nan" THEN NaN
    ELSE IF a.k = "inf" THEN (IF b.k = "inf" THEN NaN
                              ELSE Inf(a.v * (IF b.v < 0 THEN -1 ELSE 1)))
    ELSE IF b.k = "inf" THEN Fin(0)
    ELSE IF b.v = 0 THEN (IF a.v = 0 THEN NaN ELSE Inf(Sgn(a.v)))
    ELSE With(a.v * Scale, LAMBDA p : Fin(SDiv(p, b.v)))

\* f64::sqrt of a sum of two squares x*x + y*y, the only use in the program
FHypot(x, y) ==
    IF x.k = "nan" \/ y.k = "nan" THEN NaN
    ELSE IF x.k = "inf" \/ y.k = "inf" THEN Inf(1)
    ELSE With(x.v * x.v + y.v * y.v, LAMBDA sum : Fin(ISqrt(sum)))

\* f64::powi(-2)
FPowiNeg2(a) == With(FMul(a, a), LAMBDA sq : FDiv(Fin(Scale), sq))

(* ------------------------------------------------------------------ Vec2 *)

Vec2(x, y) == [x |-> x, y |-> y]

Vec2Default == Vec2(Fin(0), Fin(0))

dot(a, b) ==
    With(FMul(a.x, b.x), LAMBDA xx :
    With(FMul(a.y, b.y), LAMBDA yy : FAdd(xx, yy)))

normalized(a) ==
    With(FHypot(a.x, a.y), LAMBDA length :
        Vec2(FDiv(a.x, length), FDiv(a.y, length)))

VAdd(a, b) == Vec2(FAdd(a.x, b.x), FAdd(a.y, b.y))

VSub(a, b) == Vec2(FSub(a.x, b.x), FSub(a.y, b.y))

VMul(a, r) == Vec2(FMul(a.x, r), FMul(a.y, r))

VecFinite(a) == IsFinite(a.x) /\ IsFinite(a.y)

(* ---------------------------------------------------------------- Planet *)

Planet(p, v) == [pos |-> p, vel |-> v]

\* 0.01 of App::run_physics
ForceConst == Fin(Scale \div 100)

\* an inner loop body that takes no pull from a planet in the same place
Pull_SkipCoincident(ps, i1, i2) ==
    IF ps[i2].pos = ps[i1].pos THEN Vec2Default
    ELSE With(VSub(ps[i2].pos, ps[i1].pos), LAMBDA delta :
         With(normalized(delta), LAMBDA direction :
         With(dot(direction, direction), LAMBDA dist :
         With(FPowiNeg2(dist), LAMBDA inv :
         With(FMul(inv, ForceConst), LAMBDA force :
             VMul(direction, force))))))

\* the inner loop body for one other planet i2: its contribution to acc
Pull(ps, i1, i2) ==
    With(VSub(ps[i2].pos, ps[i1].pos), LAMBDA delta :
    With(normalized(delta), LAMBDA direction :
    With(dot(direction, direction), LAMBDA dist :
    With(FPowiNeg2(dist), LAMBDA inv :
    With(FMul(inv, ForceConst), LAMBDA force :
        VMul(direction, force))))))

RECURSIVE Acc(_, _, _)
\* the inner loop over i2 = 1..n, skipping i1, summed in index order
Acc(ps, i1, i2) ==
    IF i2 = 0 THEN Vec2Default
    ELSE IF i2 = i1 THEN Acc(ps, i1, i2 - 1)
    ELSE With(Acc(ps, i1, i2 - 1), LAMBDA acc :
         With(Pull(ps, i1, i2), LAMBDA pull : VAdd(acc, pull)))

\* the outer loop body for planet i1: vel += acc; pos = pos + vel, in place
StepPlanet(ps, i1) ==
    With(Acc(ps, i1, Len(ps)), LAMBDA acc :
    With(VAdd(ps[i1].vel, acc), LAMBDA vel :
        [ps EXCEPT ![i1] = Planet(VAdd(ps[i1].pos, vel), vel)]))

RECURSIVE PhysicsUpTo(_, _)
\* the outer loop after planets 1..n have been processed, in index order
PhysicsUpTo(ps, n) ==
    IF n = 0 THEN ps
    ELSE With(PhysicsUpTo(ps, n - 1), LAMBDA done : StepPlanet(done, n))

\* a step that computes every acc from the planets as they were before it
run_physics_Snapshot(ps) ==
    [i \in 1..Len(ps) |->
        With(Acc(ps, i, Len(ps)), LAMBDA acc :
        With(VAdd(ps[i].vel, acc), LAMBDA vel :
            Planet(VAdd(ps[i].pos, vel), vel)))]

run_physics(ps) == PhysicsUpTo(ps, Len(ps))

\* the four planets main pushes
InitialPlanets ==
    << Planet(Vec2(Fin(3 * Scale), Fin(4 * Scale)), Vec2Default),
       Planet(Vec2(Fin(-3 * Scale), Fin(4 * Scale)), Vec2Default),
       Planet(Vec2(Fin(-3 * Scale), Fin(-4 * Scale)), Vec2Default),
       Planet(Vec2(Fin(3 * Scale), Fin(-4 * Scale)), Vec2Default) >>

Positions(ps) == [i \in 1..Len(ps) |-> ps[i].pos]

\* the acc of every planet in one run_physics call: planet i's is computed
\* when planets 1..i-1 have already been moved
Accelerations(ps) ==
    [i \in 1..Len(ps) |-> Acc(PhysicsUpTo(ps, i - 1), i, Len(ps))]

RECURSIVE AfterSteps(_)
\* the planets after n physics steps from the initial configuration
AfterSteps(n) == IF n = 0 THEN InitialPlanets ELSE run_physics(AfterSteps(n - 1))

\* run_physics tabulated on the configurations a run passes through
PhysicsTable == [ps \in {AfterSteps(n) : n \in 0..MaxTicks} |-> run_physics(ps)]

\* self.run_physics() as called by handle_events: the table's entry where
\* there is one, the same computation elsewhere
StepPlanets(ps) ==
    IF ps \in DOMAIN PhysicsTable THEN PhysicsTable[ps] ELSE run_physics(ps)

\* the planets after each number of physics steps the ticker's budget allows
Trajectory == [n \in 0..(MaxTicks + 1) |-> AfterSteps(n)]

AccTable == [ps \in {AfterSteps(n) : n \in 0..MaxTicks} |-> Accelerations(ps)]

\* the accelerations of that call, from the table where there is an entry
StepAccs(ps) ==
    IF ps \in DOMAIN AccTable THEN AccTable[ps] ELSE Accelerations(ps)

(* ---------------------------------------------------------------- events *)

\* events::Event, with the crossterm event of Console flattened into it
DrawInterrupt == [tag |-> "DrawInterrupt", kind |-> "-", code |-> "-"]

Key(kind, code) == [tag |-> "Key", kind |-> kind, code |-> code]

Resize == [tag |-> "Resize", kind |-> "-", code |-> "-"]

NoEvent == [tag |-> "None", kind |-> "-", code |-> "-"]

\* what event::read() can return: key events of the three kinds, other events
ConsoleEvents ==
    { Key("Press", "q"), Key("Press", "x"), Key("Release", "q"),
      Key("Repeat", "q"), Resize }

(* --------------------------------------------------------------- channel *)

\* channel() is the unbounded channel: a send finds room whatever is queued
ChannelHasRoom_Bounded(q) == Len(q) < 1

ChannelHasRoom(q) == TRUE

\* Sender::send is an error exactly when the Receiver has been dropped
SendFails(rx) == ~rx

\* main keeps only .1 of spawn_event_threads(): its Sender is dropped at once
MainTxDropped_Kept == FALSE

MainTxDropped == TRUE

\* a receive that fails on an empty channel instead of waiting
RecvOutcome_TryRecv(q, senders) ==
    IF q # << >> THEN "msg" ELSE "disconnected"

\* Receiver::recv: a queued message first, a failure once no Sender is left
RecvOutcome(q, senders) ==
    IF q # << >> THEN "msg"
    ELSE IF senders = {} THEN "disconnected"
    ELSE "block"

(* ----------------------------------------------------------------- state *)

VARIABLES
    planets,    \* App.planets
    exit,       \* App.exit
    rxAlive,    \* App.rx exists (App not yet dropped)
    queue,      \* the messages in the channel, oldest first
    qids,       \* history: who sent each queued message, and as its how-manieth
    kbPc,       \* keyboard_thread: "read", "send", "returned"
    kbEv,       \* keyboard_thread: the event read and not yet sent
    kbWhy,      \* keyboard_thread: why it returned
    tickPc,     \* redraw_interrupt_thread: "send", "sleep", "returned"
    ctrlPc,     \* main thread: "draw", "recv", "handle" inside App::run,
                \* then "returned", "dropped", "exited"
    cur,        \* the event recv returned last
    runResult,  \* what App::run returned: "none", "ok", "err_draw", "err_recv"
    frame,      \* the positions the last completed render showed
    renders,    \* history: terminal.draw calls since the last recv
    steps,      \* history: run_physics calls since the last recv
    muts,       \* history: state mutations since the last terminal.draw call
    keysRead,   \* history: reads completed
    ticksDone,  \* history: sleeps completed
    keysSent,   \* history: Console events enqueued
    ticksSent,  \* history: DrawInterrupt events enqueued
    curId,      \* history: sender and number of the event recv returned last
    recvd,      \* history: events received so far, per sender
    prev,       \* history: the planets before the last run_physics call
    accs        \* history: the acc of each planet in the last run_physics call

appVars == << planets, exit >>

ctrlVars == << ctrlPc, cur, runResult, frame, renders, steps, muts, curId,
              recvd, prev, accs >>

kbVars == << kbPc, kbEv, kbWhy, keysRead, keysSent >>

tickVars == << tickPc, ticksDone, ticksSent >>

vars == << planets, exit, rxAlive, queue, qids, kbPc, kbEv, kbWhy, tickPc, ctrlPc,
           cur, runResult, frame, renders, steps, muts, keysRead, ticksDone,
           keysSent, ticksSent, curId, recvd, prev, accs >>

\* the id of no event
NoId == << "none", 0 >>

\* the Senders that still exist: each thread owns one until it returns
Senders ==
    (IF MainTxDropped THEN {} ELSE {"main"})
    \cup (IF kbPc # "returned" THEN {"key"} ELSE {})
    \cup (IF tickPc # "returned" THEN {"ticker"} ELSE {})

ProcessAlive == ctrlPc # "exited"

InRun == ctrlPc \in {"draw", "recv", "handle"}

\* main up to the call of app.run
Init ==
    /\ planets = InitialPlanets
    /\ exit = FALSE
    /\ rxAlive = TRUE
    /\ queue = << >>
    /\ kbPc = "read"
    /\ kbEv = NoEvent
    /\ kbWhy = "none"
    /\ tickPc = "send"
    /\ ctrlPc = "draw"
    /\ cur = NoEvent
    /\ runResult = "none"
    /\ frame = << >>
    /\ renders = 0
    /\ steps = 0
    /\ muts = 0
    /\ keysRead = 0
    /\ ticksDone = 0
    /\ qids = << >>
    /\ keysSent = 0
    /\ ticksSent = 0
    /\ curId = NoId
    /\ recvd = [key |-> 0, ticker |-> 0]
    /\ prev = << >>
    /\ accs = << >>

(* ------------------------------------------------------- keyboard_thread *)

\* event::read() returns Ok(e)
KbRead ==
    /\ ProcessAlive
    /\ kbPc = "read"
    /\ keysRead < MaxKeys
    /\ \E e \in ConsoleEvents : kbEv' = e
    /\ kbPc' = "send"
    /\ keysRead' = keysRead + 1
    /\ UNCHANGED << appVars, ctrlVars, tickVars, rxAlive, queue, qids, kbWhy,
                    keysSent >>

\* event::read() returns Err: the else branch returns
KbReadFails ==
    /\ ProcessAlive
    /\ kbPc = "read"
    /\ kbPc' = "returned"
    /\ kbWhy' = "read_failed"
    /\ UNCHANGED << appVars, ctrlVars, tickVars, rxAlive, queue, qids, kbEv,
                    keysRead, keysSent >>

\* a keyboard thread that ignores the result of send
KbSend_IgnoreErr ==
    /\ ProcessAlive
    /\ kbPc = "send"
    /\ ChannelHasRoom(queue)
    /\ IF SendFails(rxAlive)
       THEN UNCHANGED << queue, qids, keysSent >>
       ELSE /\ queue' = Append(queue, kbEv)
            /\ qids' = Append(qids, << "key", keysSent + 1 >>)
            /\ keysSent' = keysSent + 1
    /\ kbPc' = "read"
    /\ kbEv' = NoEvent
    /\ UNCHANGED << appVars, ctrlVars, tickVars, rxAlive, keysRead, kbWhy >>

\* tx.send(Event::Console(e)): enqueue and loop, or return on the error
KbSend ==
    /\ ProcessAlive
    /\ kbPc = "send"
    /\ ChannelHasRoom(queue)
    /\ IF SendFails(rxAlive)
       THEN /\ kbPc' = "returned"
            /\ kbWhy' = "send_failed"
            /\ UNCHANGED << queue, qids, keysSent >>
       ELSE /\ kbPc' = "read"
            /\ kbWhy' = kbWhy
            /\ queue' = Append(queue, kbEv)
            /\ qids' = Append(qids, << "key", keysSent + 1 >>)
            /\ keysSent' = keysSent + 1
    /\ kbEv' = NoEvent
    /\ UNCHANGED << appVars, ctrlVars, tickVars, rxAlive, keysRead >>

(* ----------------------------------------------- redraw_interrupt_thread *)

\* a ticker that treats a successful send as its reason to stop
TickSend_BreakOnOk ==
    /\ ProcessAlive
    /\ tickPc = "send"
    /\ ChannelHasRoom(queue)
    /\ IF SendFails(rxAlive)
       THEN /\ tickPc' = "sleep"
            /\ UNCHANGED << queue, qids, ticksSent >>
       ELSE /\ tickPc' = "returned"
            /\ queue' = Append(queue, DrawInterrupt)
            /\ qids' = Append(qids, << "ticker", ticksSent + 1 >>)
            /\ ticksSent' = ticksSent + 1
    /\ UNCHANGED << appVars, ctrlVars, kbVars, rxAlive, ticksDone >>

\* tx.send(Event::DrawInterrupt): enqueue and go to sleep, or break on the error
\* a ticker that sends no tick while one is still queued
TickSend_Coalesce ==
    /\ ProcessAlive
    /\ tickPc = "send"
    /\ ChannelHasRoom(queue)
    /\ IF SendFails(rxAlive)
       THEN /\ tickPc' = "returned"
            /\ UNCHANGED << queue, qids, ticksSent >>
       ELSE /\ tickPc' = "sleep"
            /\ IF \E i \in 1..Len(queue) : queue[i] = DrawInterrupt
               THEN UNCHANGED << queue, qids, ticksSent >>
               ELSE /\ queue' = Append(queue, DrawInterrupt)
                    /\ qids' = Append(qids, << "ticker", ticksSent + 1 >>)
                    /\ ticksSent' = ticksSent + 1
    /\ UNCHANGED << appVars, ctrlVars, kbVars, rxAlive, ticksDone >>

\* a ticker whose message jumps the queue
TickSend_Front ==
    /\ ProcessAlive
    /\ tickPc = "send"
    /\ ChannelHasRoom(queue)
    /\ IF SendFails(rxAlive)
       THEN /\ tickPc' = "returned"
            /\ UNCHANGED << queue, qids, ticksSent >>
       ELSE /\ tickPc' = "sleep"
            /\ queue' = << DrawInterrupt >> \o queue
            /\ qids' = << << "ticker", ticksSent + 1 >> >> \o qids
            /\ ticksSent' = ticksSent + 1
    /\ UNCHANGED << appVars, ctrlVars, kbVars, rxAlive, ticksDone >>

TickSend ==
    /\ ProcessAlive
    /\ tickPc = "send"
    /\ ChannelHasRoom(queue)
    /\ IF SendFails(rxAlive)
       THEN /\ tickPc' = "returned"
            /\ UNCHANGED << queue, qids, ticksSent >>
       ELSE /\ tickPc' = "sleep"
            /\ queue' = Append(queue, DrawInterrupt)
            /\ qids' = Append(qids, << "ticker", ticksSent + 1 >>)
            /\ ticksSent' = ticksSent + 1
    /\ UNCHANGED << appVars, ctrlVars, kbVars, rxAlive, ticksDone >>

\* a ticker that steps the planets itself when its sleep ends
TickWake_StepsPlanets ==
    /\ ProcessAlive
    /\ tickPc = "sleep"
    /\ ticksDone < MaxTicks
    /\ tickPc' = "send"
    /\ ticksDone' = ticksDone + 1
    /\ planets' = StepPlanets(planets)
    /\ UNCHANGED << exit, ctrlVars, kbVars, rxAlive, queue, qids, ticksSent >>

\* thread::sleep(50 ms) ends
TickWake ==
    /\ ProcessAlive
    /\ tickPc = "sleep"
    /\ ticksDone < MaxTicks
    /\ tickPc' = "send"
    /\ ticksDone' = ticksDone + 1
    /\ UNCHANGED << appVars, ctrlVars, kbVars, rxAlive, queue, qids, ticksSent >>

(* ------------------------------------------------------------------- App *)

\* the arm of the match in handle_events an event takes
EventClass_NoKindGuard(e) ==
    IF e.tag = "Key" THEN "key_press"
    ELSE IF e.tag = "DrawInterrupt" THEN "draw_interrupt"
    ELSE "other"

EventClass_TickIgnored(e) ==
    IF e.tag = "Key" /\ e.kind = "Press" THEN "key_press" ELSE "other"

EventClass(e) ==
    IF e.tag = "Key" /\ e.kind = "Press" THEN "key_press"
    ELSE IF e.tag = "DrawInterrupt" THEN "draw_interrupt"
    ELSE "other"

\* a handle_key_event that exits on no key
handle_key_event_NoKey(ex, code) == ex

\* a handle_key_event that exits on every key
handle_key_event_AnyKey(ex, code) == TRUE

\* App::handle_key_event with App::exit: the value of self.exit afterwards
handle_key_event(ex, code) == IF code = "q" THEN TRUE ELSE ex

\* the test of the while loop in App::run
LoopContinues_Always(ex) == TRUE

LoopContinues(ex) == ~ex

\* terminal.draw(...) succeeds: the frame shows the planets' positions
Draw_Stale ==
    /\ ctrlPc = "draw"
    /\ frame' = IF frame = << >> THEN Positions(planets) ELSE frame
    /\ renders' = renders + 1
    /\ muts' = 0
    /\ ctrlPc' = "recv"
    /\ UNCHANGED << appVars, kbVars, tickVars, rxAlive, queue, qids, cur, runResult,
                    steps, curId, recvd, prev, accs >>

Draw ==
    /\ ctrlPc = "draw"
    /\ frame' = Positions(planets)
    /\ renders' = renders + 1
    /\ muts' = 0
    /\ ctrlPc' = "recv"
    /\ UNCHANGED << appVars, kbVars, tickVars, rxAlive, queue, qids, cur, runResult,
                    steps, curId, recvd, prev, accs >>

\* terminal.draw(...) fails: run returns the error
DrawFails ==
    /\ ctrlPc = "draw"
    /\ renders' = renders + 1
    /\ muts' = 0
    /\ ctrlPc' = "returned"
    /\ runResult' = "err_draw"
    /\ UNCHANGED << appVars, kbVars, tickVars, rxAlive, queue, qids, cur, frame,
                    steps, curId, recvd, prev, accs >>

\* a recv that is reached only after the keyboard thread's read has returned
Recv_KeyFirst ==
    /\ ctrlPc = "recv"
    /\ kbPc # "read"
    /\ queue # << >>
    /\ cur' = Head(queue)
    /\ queue' = Tail(queue)
    /\ curId' = Head(qids)
    /\ qids' = Tail(qids)
    /\ recvd' = [recvd EXCEPT ![Head(qids)[1]] = @ + 1]
    /\ ctrlPc' = "handle"
    /\ renders' = 0
    /\ steps' = 0
    /\ UNCHANGED << appVars, kbVars, tickVars, rxAlive, runResult, frame, muts,
                    prev, accs >>

\* a recv that returns the oldest message and leaves it in the channel
Recv_Peek ==
    /\ ctrlPc = "recv"
    /\ queue # << >>
    /\ cur' = Head(queue)
    /\ curId' = Head(qids)
    /\ recvd' = [recvd EXCEPT ![Head(qids)[1]] = @ + 1]
    /\ ctrlPc' = "handle"
    /\ renders' = 0
    /\ steps' = 0
    /\ UNCHANGED << appVars, kbVars, tickVars, rxAlive, queue, qids, runResult,
                    frame, muts, prev, accs >>

\* self.rx.recv()? in handle_events
Recv ==
    /\ ctrlPc = "recv"
    /\ LET out == RecvOutcome(queue, Senders)
       IN  /\ out # "block"
           /\ IF out = "msg"
              THEN /\ cur' = Head(queue)
                   /\ queue' = Tail(queue)
                   /\ curId' = Head(qids)
                   /\ qids' = Tail(qids)
                   /\ recvd' = [recvd EXCEPT ![Head(qids)[1]] = @ + 1]
                   /\ ctrlPc' = "handle"
                   /\ runResult' = runResult
                   /\ renders' = 0
                   /\ steps' = 0
              ELSE /\ ctrlPc' = "returned"
                   /\ runResult' = "err_recv"
                   /\ UNCHANGED << cur, queue, qids, renders, steps, curId, recvd >>
    /\ UNCHANGED << appVars, kbVars, tickVars, rxAlive, frame, muts, prev, accs >>

\* the match of handle_events on the received event, then the loop test of run
Handle ==
    /\ ctrlPc = "handle"
    /\ LET cls == EventClass(cur)
           newExit == IF cls = "key_press"
                      THEN handle_key_event(exit, cur.code) ELSE exit
           newPlanets == IF cls = "draw_interrupt"
                         THEN StepPlanets(planets) ELSE planets
       IN  /\ exit' = newExit
           /\ planets' = newPlanets
           /\ prev' = IF cls = "draw_interrupt" THEN planets ELSE prev
           /\ accs' = IF cls = "draw_interrupt" THEN StepAccs(planets) ELSE accs
           /\ steps' = steps + (IF cls = "draw_interrupt" THEN 1 ELSE 0)
           /\ muts' = muts + (IF cls = "draw_interrupt" THEN 1 ELSE 0)
                           + (IF newExit # exit THEN 1 ELSE 0)
           /\ IF LoopContinues(newExit)
              THEN ctrlPc' = "draw" /\ runResult' = runResult
              ELSE ctrlPc' = "returned" /\ runResult' = "ok"
    /\ UNCHANGED << kbVars, tickVars, rxAlive, queue, qids, cur, frame, renders,
                    curId, recvd >>

(* ------------------------------------------------------------------ main *)

\* run has returned: main returns (after tui::restore on Ok) and drops App,
\* and with it the Receiver and what is still queued
MainReturn ==
    /\ ctrlPc = "returned"
    /\ ctrlPc' = "dropped"
    /\ rxAlive' = FALSE
    /\ queue' = << >>
    /\ qids' = << >>
    /\ UNCHANGED << appVars, kbVars, tickVars, cur, runResult, frame, renders,
                    steps, muts, curId, recvd, prev, accs >>

\* main has returned: the process ends and the producer threads end with it
ProcessExit ==
    /\ ctrlPc = "dropped"
    /\ ctrlPc' = "exited"
    /\ UNCHANGED << appVars, kbVars, tickVars, rxAlive, queue, qids, cur, runResult,
                    frame, renders, steps, muts, curId, recvd, prev, accs >>

(* -------------------------------------------------------- specifications *)

Next ==
    \/ KbRead
    \/ KbReadFails
    \/ KbSend
    \/ TickSend
    \/ TickWake
    \/ Draw
    \/ DrawFails
    \/ Recv
    \/ Handle
    \/ MainReturn
    \/ ProcessExit

Spec == Init /\ [][Next]_vars

\* a test harness around App::run: it builds the channel itself and may have
\* dropped either producer's Sender before the loop starts
HInit ==
    /\ planets = InitialPlanets
    /\ exit = FALSE
    /\ rxAlive = TRUE
    /\ queue = << >>
    /\ kbPc \in {"read", "returned"}
    /\ kbEv = NoEvent
    /\ kbWhy = (IF kbPc = "returned" THEN "dropped" ELSE "none")
    /\ tickPc \in {"send", "returned"}
    /\ ctrlPc = "draw"
    /\ cur = NoEvent
    /\ runResult = "none"
    /\ frame = << >>
    /\ renders = 0
    /\ steps = 0
    /\ muts = 0
    /\ keysRead = 0
    /\ ticksDone = 0
    /\ qids = << >>
    /\ keysSent = 0
    /\ ticksSent = 0
    /\ curId = NoId
    /\ recvd = [key |-> 0, ticker |-> 0]
    /\ prev = << >>
    /\ accs = << >>

HSpec == HInit /\ [][Next]_vars

\* the ticks a physics test sends before it runs the loop
PhysSteps == 2

\* the coordinates the physics tests draw from, in units of 1/Scale
Coords == {0 - 3000, 0 - 3, 0, 1, 5, 4000}

At(x, y) == Vec2(Fin(x), Fin(y))

\* a planet at rest
Still(p) == Planet(p, Vec2Default)

\* two planets at rest at p and -p
TwoBody(x, y) == << Still(At(x, y)), Still(At(0 - x, 0 - y)) >>

SymmetricPairs == {TwoBody(x, y) : x \in Coords, y \in Coords} \ {TwoBody(0, 0)}

\* two of three planets in one place
CoincidentThree ==
    << Still(At(1000, 0)), Still(At(1000, 0)), Still(At(0 - 2000, 500)) >>

\* three moving planets, close to each other
MovingThree ==
    << Planet(At(30, 0), At(0, 2)),
       Planet(At(0 - 30, 10), At(0, 0 - 2)),
       Planet(At(5, 40), At(1, 0)) >>

TestConfigs ==
    SymmetricPairs \cup {TwoBody(0, 0), CoincidentThree, MovingThree, InitialPlanets}

\* a physics test: App is built with the planets of the test and the Receiver
\* of a channel that holds PhysSteps ticks and has no Sender left
PInit ==
    /\ planets \in TestConfigs
    /\ exit = FALSE
    /\ rxAlive = TRUE
    /\ queue = [i \in 1..PhysSteps |-> DrawInterrupt]
    /\ qids = [i \in 1..PhysSteps |-> << "ticker", i >>]
    /\ kbPc = "returned"
    /\ kbEv = NoEvent
    /\ kbWhy = "dropped"
    /\ tickPc = "returned"
    /\ ctrlPc = "draw"
    /\ cur = NoEvent
    /\ runResult = "none"
    /\ frame = << >>
    /\ renders = 0
    /\ steps = 0
    /\ muts = 0
    /\ keysRead = 0
    /\ ticksDone = 0
    /\ keysSent = 0
    /\ ticksSent = PhysSteps
    /\ curId = NoId
    /\ recvd = [key |-> 0, ticker |-> 0]
    /\ prev = << >>
    /\ accs = << >>

PNext ==
    \/ Draw
    \/ Recv
    \/ Handle
    \/ MainReturn
    \/ ProcessExit

PSpec == PInit /\ [][PNext]_vars

\* The scheduler runs every thread that can take a step; whether the terminal
\* ever delivers input or a read error is up to the environment.
Fairness ==
    /\ WF_vars(KbSend)
    /\ WF_vars(TickSend)
    /\ WF_vars(TickWake)
    /\ WF_vars(Draw \/ DrawFails)
    /\ WF_vars(Recv)
    /\ WF_vars(Handle)
    /\ WF_vars(MainReturn)
    /\ WF_vars(ProcessExit)

FairSpec == Spec /\ Fairness

(* ---------------------------------------------------------------- claims *)

IsQuitPress(e) == e.tag = "Key" /\ e.kind = "Press" /\ e.code = "q"

HandleStep == ctrlPc = "handle" /\ ctrlPc' # "handle"

KbStep == kbPc' # kbPc

TickStep == tickPc' # tickPc

\* In the program itself recv never fails: the ticker keeps its Sender for as
\* long as the Receiver exists.
NoDisconnectInProgram == runResult # "err_recv"

\* C1: consuming a Press of 'q' while Running sets the exit flag and ends the
\* run loop with Ok; from then on no physics step and no render happens,
\* whatever is queued or arrives.
C1_QuitEndsLoop ==
    /\ [][(HandleStep /\ IsQuitPress(cur))
            => (exit' /\ ctrlPc' = "returned" /\ runResult' = "ok")]_vars
    /\ [](exit => ~InRun /\ runResult = "ok")
    /\ [][exit => (exit' /\ planets' = planets /\ frame' = frame
                   /\ renders' = renders /\ steps' = steps)]_vars

C1_Witness == exit /\ ctrlPc = "returned" /\ Len(queue) >= 2 /\ tickPc = "send"

\* C2: a consumed DrawInterrupt causes exactly one run_physics call and then
\* exactly one terminal.draw call before the next recv (or the end of run).
C2_TickOneStepOneRender ==
    cur = DrawInterrupt =>
        /\ ctrlPc = "handle" => steps = 0 /\ renders = 0
        /\ ctrlPc = "draw" => steps = 1 /\ renders = 0
        /\ ctrlPc \notin {"handle", "draw"} => steps = 1 /\ renders = 1

C2_Witness == cur = DrawInterrupt /\ ctrlPc = "recv" /\ steps = 1 /\ renders = 1

\* C3: the loop alternates draw, recv, handle; one render precedes each recv,
\* at most one mutation lies between two renders, and what is on screen while
\* the controller waits is the state after the latest mutation (at first the
\* initial configuration).
C3_Alternation ==
    /\ [][ctrlPc' # ctrlPc =>
            /\ ctrlPc = "draw" => ctrlPc' \in {"recv", "returned"}
            /\ ctrlPc = "recv" => ctrlPc' \in {"handle", "returned"}
            /\ ctrlPc = "handle" => ctrlPc' \in {"draw", "returned"}]_vars
    /\ [](ctrlPc = "recv" => renders = 1)
    /\ [](muts <= 1)
    /\ [](ctrlPc \in {"recv", "handle"} => frame = Positions(planets))
    /\ []((ctrlPc = "recv" /\ cur = NoEvent) => frame = Positions(InitialPlanets))

C3_Witness ==
    /\ ctrlPc = "recv"
    /\ cur = DrawInterrupt
    /\ frame = Positions(planets)
    /\ frame # Positions(InitialPlanets)
    /\ muts = 0

Disconnected == kbPc = "returned" /\ tickPc = "returned"

\* C4: with both producers gone (and main's Sender dropped) the controller at
\* recv is never blocked: it takes what is still queued, and with nothing
\* queued recv fails and run returns the error.
C4_RecvFailsWhenDisconnected ==
    /\ []((ctrlPc = "recv" /\ Disconnected) => ENABLED Recv)
    /\ [][(ctrlPc = "recv" /\ Disconnected) =>
            IF queue = << >>
            THEN ctrlPc' = "returned" /\ runResult' = "err_recv"
            ELSE ctrlPc' = "handle" /\ cur' = Head(queue) /\ queue' = Tail(queue)]_vars

C4_Witness ==
    /\ ctrlPc = "returned"
    /\ runResult = "err_recv"
    /\ Disconnected
    /\ cur \in ConsoleEvents

\* C5: once the input producer has returned on a read failure, the controller
\* waiting on an empty channel sees it closed (recv fails rather than blocks).
C5_ReadFailureClosesChannel ==
    (kbWhy = "read_failed" /\ ctrlPc = "recv" /\ queue = << >>)
        => RecvOutcome(queue, Senders) = "disconnected"

\* C6: consuming a Console event other than a Press of 'q' changes no planet
\* and not the exit flag, is no error, and leaves the controller Running.
C6_OtherConsoleIsNoOp ==
    [][(HandleStep /\ cur \in ConsoleEvents /\ ~IsQuitPress(cur))
        => (planets' = planets /\ exit' = exit /\ ~exit'
            /\ ctrlPc' = "draw" /\ runResult' = "none")]_vars

C6_Witness == ctrlPc = "draw" /\ cur = Key("Release", "q") /\ ~exit /\ keysRead = 2

\* C7: the producers' steps neither change nor are guarded by the simulation
\* state or anything else of the controller; the controller's steps change
\* nothing of the producers; the queue is all they share.
C7_OnlyControllerTouchesState ==
    /\ [][(KbStep \/ TickStep)
            => UNCHANGED << planets, exit, ctrlVars, rxAlive >>]_vars
    /\ [][ctrlPc' # ctrlPc => UNCHANGED << kbVars, tickVars >>]_vars
    /\ []((ENABLED KbSend) <=> (ProcessAlive /\ kbPc = "send"))
    /\ []((ENABLED TickSend) <=> (ProcessAlive /\ tickPc = "send"))
    /\ []((ENABLED TickWake)
            <=> (ProcessAlive /\ tickPc = "sleep" /\ ticksDone < MaxTicks))
    /\ []((ENABLED KbRead) <=> (ProcessAlive /\ kbPc = "read" /\ keysRead < MaxKeys))

C7_Witness ==
    /\ planets # InitialPlanets
    /\ ctrlPc = "handle"
    /\ kbPc = "send"
    /\ tickPc = "sleep"
    /\ ticksDone >= 1

\* C8: a send is never blocked, however much is queued; it enqueues the event
\* while the Receiver exists and fails only once the Receiver is gone.
C8_SendNeverBlocks ==
    /\ []((ProcessAlive /\ kbPc = "send") => ENABLED KbSend)
    /\ []((ProcessAlive /\ tickPc = "send") => ENABLED TickSend)
    /\ [][(kbPc = "send" /\ KbStep) =>
            IF rxAlive THEN queue' = Append(queue, kbEv) /\ kbPc' = "read"
            ELSE queue' = queue /\ kbPc' = "returned"]_vars
    /\ [][(tickPc = "send" /\ TickStep) =>
            IF rxAlive THEN queue' = Append(queue, DrawInterrupt) /\ tickPc' = "sleep"
            ELSE queue' = queue /\ tickPc' = "returned"]_vars

C8_Witness == Len(queue) >= 4 /\ rxAlive /\ ctrlPc = "draw" /\ cur = NoEvent

\* C9: the ticker returns only from a send that failed because the Receiver
\* was dropped (while the Receiver exists it has not returned); the keyboard
\* thread returns only from such a send or from a failed read; neither return
\* ends the process or touches the main thread.
C9_ReturnOnlyForReason ==
    /\ [](rxAlive => tickPc \in {"send", "sleep"})
    /\ [][(TickStep /\ tickPc' = "returned") => (tickPc = "send" /\ ~rxAlive)]_vars
    /\ [][(KbStep /\ kbPc' = "returned") =>
            \/ kbPc = "send" /\ ~rxAlive /\ kbWhy' = "send_failed"
            \/ kbPc = "read" /\ kbWhy' = "read_failed"]_vars
    /\ [][((KbStep /\ kbPc' = "returned") \/ (TickStep /\ tickPc' = "returned"))
            => (ProcessAlive' /\ UNCHANGED << ctrlVars, appVars >>)]_vars

C9_Witness ==
    /\ tickPc = "returned"
    /\ kbPc = "returned"
    /\ kbWhy = "send_failed"
    /\ ProcessAlive

\* C10 as stated: once the Receiver has been dropped, both producers
\* eventually return.
C10_Original == (~rxAlive) ~> (kbPc = "returned" /\ tickPc = "returned")

\* C10 as amended: once the Receiver has been dropped, every send a producer
\* attempts fails and makes it return, and a producer that is at its send
\* gets there unless the process ends first. (A keyboard thread blocked in
\* read attempts no send until the terminal delivers something.)
C10_SendAfterDropReturns ==
    /\ [][(~rxAlive /\ kbPc = "send" /\ KbStep)
            => (kbPc' = "returned" /\ kbWhy' = "send_failed")]_vars
    /\ [][(~rxAlive /\ tickPc = "send" /\ TickStep) => tickPc' = "returned"]_vars
    /\ (~rxAlive /\ kbPc = "send") ~> (kbPc = "returned" \/ ~ProcessAlive)
    /\ (~rxAlive /\ tickPc = "send") ~> (tickPc = "returned" \/ ~ProcessAlive)

C10_Witness ==
    /\ ~rxAlive
    /\ tickPc = "returned"
    /\ kbPc = "read"
    /\ runResult = "ok"

\* the number of queued messages that sender src sent
CountSrc(ids, src) == Cardinality({i \in 1..Len(ids) : ids[i][1] = src})

\* every queued message has one sender, and the sender fits the message
OneSourceEach ==
    /\ Len(qids) = Len(queue)
    /\ \A i \in 1..Len(qids) :
          /\ qids[i][1] \in {"key", "ticker"}
          /\ (qids[i][1] = "ticker") <=> (queue[i] = DrawInterrupt)
          /\ (qids[i][1] = "key") <=> (queue[i] \in ConsoleEvents)

\* the n-th event received from a sender is the n-th that sender sent
ReceivedInSendOrder == curId # NoId => curId[2] = recvd[curId[1]]

\* while the Receiver exists, what was sent is received or still queued
NothingLostWhileReceiving ==
    rxAlive => /\ keysSent = recvd.key + CountSrc(qids, "key")
               /\ ticksSent = recvd.ticker + CountSrc(qids, "ticker")

\* C11 as stated: every event has one source, none is handled twice, and
\* when the program has ended none that was sent is left unhandled
C11_Original ==
    /\ OneSourceEach
    /\ ReceivedInSendOrder
    /\ ctrlPc = "exited" => (recvd.key = keysSent /\ recvd.ticker = ticksSent)

\* C11: every event has exactly one of the two sources and is received at
\* most once, each receive handing over the next event not yet received; as
\* long as the Receiver exists every event sent is received or still queued,
\* and the events still queued when run returns are dropped unhandled
C11_AtMostOnce ==
    /\ OneSourceEach
    /\ ReceivedInSendOrder
    /\ NothingLostWhileReceiving
    /\ recvd.key <= keysSent /\ recvd.ticker <= ticksSent
    /\ ctrlPc = "handle" => (curId # NoId /\ steps = 0 /\ muts = 0)

\* the program has ended with a key handled and a tick sent but never handled
C11_Witness ==
    /\ ctrlPc = "exited"
    /\ recvd.key >= 1
    /\ recvd.ticker < ticksSent

\* the numbers of one sender's queued messages grow from head to tail, and
\* all of them are beyond what has been received from that sender
QueuedInSendOrder ==
    /\ \A i, j \in 1..Len(qids) :
          (i < j /\ qids[i][1] = qids[j][1]) => qids[i][2] < qids[j][2]
    /\ \A i \in 1..Len(qids) : qids[i][2] > recvd[qids[i][1]]

\* the channel changes only by a send at the tail or a receive at the head
FifoStep ==
    (queue' # queue /\ rxAlive')
        => \/ /\ \E e \in ConsoleEvents \cup {DrawInterrupt} :
                    queue' = Append(queue, e)
              /\ Len(qids') = Len(qids) + 1
              /\ SubSeq(qids', 1, Len(qids)) = qids
              /\ UNCHANGED << cur, curId >>
           \/ /\ ctrlPc = "recv"
              /\ queue # << >>
              /\ cur' = Head(queue) /\ queue' = Tail(queue)
              /\ curId' = Head(qids) /\ qids' = Tail(qids)

\* C12: the controller receives events in the order they were enqueued, so
\* two events of one producer are handled in that producer's send order,
\* while a Console event and a tick are ordered only by their arrival
C12_FifoOrder ==
    /\ []QueuedInSendOrder
    /\ []ReceivedInSendOrder
    /\ [][FifoStep]_vars

\* the second tick is being handled while a key that arrived later waits
C12_Witness ==
    /\ ctrlPc = "handle"
    /\ curId = << "ticker", 2 >>
    /\ recvd.key = 0
    /\ Len(qids) >= 2
    /\ qids[1] = << "key", 1 >>
    /\ qids[2] = << "ticker", 3 >>

\* the number of physics steps the planets have been through
StepsTaken ==
    IF \E k \in DOMAIN Trajectory : Trajectory[k] = planets
    THEN CHOOSE k \in DOMAIN Trajectory : Trajectory[k] = planets
    ELSE 0 - 1

\* the keyboard thread has been in its first read ever since it started
InputBlocked == kbPc = "read" /\ keysRead = 0

\* C13: with fair scheduling and no failing render, again and again every
\* tick the ticker has sent so far has had its physics step; with the input
\* producer blocked in read for ever the steps go on for as long as the
\* ticker goes on, and the blocked read disables neither the ticker's send
\* nor the controller's receive
C13_TicksKeepStepping ==
    /\ []<>(StepsTaken = ticksSent \/ runResult # "none")
    /\ <>(~InputBlocked \/ runResult # "none" \/ StepsTaken = MaxTicks + 1)
    /\ []((InputBlocked /\ ProcessAlive /\ tickPc = "send") => ENABLED TickSend)
    /\ []((InputBlocked /\ ctrlPc = "recv" /\ queue # << >>) => ENABLED Recv)

\* no input ever arrived and every tick of the ticker has had its step
C13_Witness ==
    /\ InputBlocked
    /\ InRun
    /\ ticksSent = MaxTicks + 1
    /\ StepsTaken = MaxTicks + 1

\* two planets at rest at p and -p, p not zero
SymmetricTwoBody(ps) ==
    /\ Len(ps) = 2
    /\ VecFinite(ps[1].pos)
    /\ ps[1].pos # Vec2Default
    /\ ps[2].pos = VSub(Vec2Default, ps[1].pos)
    /\ ps[1].vel = Vec2Default
    /\ ps[2].vel = Vec2Default

\* a = -b, up to one unit of rounding in each component
EqualAndOpposite(a, b) ==
    /\ VecFinite(a) /\ VecFinite(b)
    /\ Abs(a.x.v + b.x.v) <= 1
    /\ Abs(a.y.v + b.y.v) <= 1

\* C14: after a physics step on two planets at rest at p and -p, the
\* accelerations the step computed for the two are equal and opposite
C14_EqualAndOpposite ==
    (prev # << >> /\ SymmetricTwoBody(prev)) => EqualAndOpposite(accs[1], accs[2])

\* the controller is past the draw call that follows the handling of cur
PastHandling == cur # NoEvent /\ ctrlPc \notin {"handle", "draw"}

\* C15 as stated: whatever the event received, once it is handled one render
\* pass is triggered
C15_Original == PastHandling => renders = 1

\* C15: for every event it receives that does not set exit (a tick, a press
\* of another key, a Console event that is no key press) the controller
\* handles it and then calls terminal.draw once, which may fail and end run;
\* after handling a press of 'q' it calls no draw at all and run returns
C15_RenderUnlessQuit ==
    /\ PastHandling => renders = (IF IsQuitPress(cur) THEN 0 ELSE 1)
    /\ (cur # NoEvent /\ ctrlPc = "draw") => (renders = 0 /\ ~IsQuitPress(cur))
    /\ IsQuitPress(cur) => ctrlPc # "recv"
    /\ (ctrlPc = "recv" /\ cur # NoEvent) => frame = Positions(planets)

\* a tick has been handled, a press of another key has been handled and
\* followed by its render, and a press of 'q' is the next to be received
C15_Witness ==
    /\ recvd.ticker >= 1
    /\ recvd.key = 1
    /\ cur = Key("Press", "x")
    /\ ctrlPc = "recv"
    /\ renders = 1
    /\ queue # << >>
    /\ IsQuitPress(Head(queue))

\* what planet i of the last step saw: the planets before it as the step
\* left them, itself and the planets after it as they were before the step
SeenBy(i) == [j \in 1..Len(prev) |-> IF j < i THEN planets[j] ELSE prev[j]]

\* C16: a physics step takes the planets in index order and writes each one
\* once, right after its acc: the acc of planet i comes from the new
\* positions of the planets before it and the old positions of those after
\* it, its vel is the old vel plus that acc and its pos the old pos plus the
\* new vel; for the planets of main, and for three moving planets, this is
\* not what a step from a snapshot of the old positions gives
C16_InPlaceInIndexOrder ==
    prev # << >> =>
        /\ Len(planets) = Len(prev)
        /\ Len(accs) = Len(prev)
        /\ \A i \in 1..Len(prev) :
              /\ accs[i] = Acc(SeenBy(i), i, Len(prev))
              /\ planets[i].vel = VAdd(prev[i].vel, accs[i])
              /\ planets[i].pos = VAdd(prev[i].pos, planets[i].vel)
        /\ prev \in {InitialPlanets, MovingThree}
              => planets # run_physics_Snapshot(prev)

\* a step on three moving planets has given the third an acc that differs
\* from the one the old positions of the first two give
C16_Witness ==
    /\ prev = MovingThree
    /\ ctrlPc = "draw"
    /\ steps = 1
    /\ accs[3] # Acc(prev, 3, 3)
    /\ accs[3] = Acc(SeenBy(3), 3, 3)

\* two positions that compare equal as f64 pairs
SamePos(a, b) == a = b /\ a.x.k # "nan" /\ a.y.k # "nan"

\* when the last step computed the acc of planet i, another planet was where
\* planet i was
CoincidentAt(i) ==
    \E j \in 1..Len(prev) : j # i /\ SamePos(SeenBy(i)[j].pos, prev[i].pos)

NonFinite(v) == ~IsFinite(v.x) /\ ~IsFinite(v.y)

\* C17: a planet whose acc is computed while another planet is in the same
\* place gets a non-finite acc, vel and pos; the step still returns Ok and
\* the loop goes on to its next draw, and a planet whose vel and pos are
\* non-finite keeps them non-finite in every later state
C17_NonFiniteAbsorbing ==
    /\ [](prev # << >> =>
            \A i \in 1..Len(prev) :
                CoincidentAt(i) => /\ NonFinite(accs[i])
                                   /\ NonFinite(planets[i].vel)
                                   /\ NonFinite(planets[i].pos))
    /\ [][(ctrlPc = "handle" /\ cur = DrawInterrupt /\ ~exit)
            => (ctrlPc' = "draw" /\ runResult' = "none" /\ steps' = 1)]_vars
    /\ [][\A i \in 1..Len(planets) :
            (NonFinite(planets[i].vel) /\ NonFinite(planets[i].pos))
                => /\ Len(planets') = Len(planets)
                   /\ NonFinite(planets'[i].vel)
                   /\ NonFinite(planets'[i].pos)]_vars

\* the first step moved planet 1 onto planet 2 and made planet 2 non-finite
\* while planet 1 was still finite; a second step has run and returned, the
\* loop is at its next draw and planet 2 is still non-finite
C17_Witness ==
    /\ recvd.ticker = 2
    /\ ctrlPc = "draw"
    /\ runResult = "none"
    /\ Len(prev) = 2
    /\ VecFinite(prev[1].pos)
    /\ NonFinite(prev[2].pos)
    /\ NonFinite(planets[2].vel)
    /\ NonFinite(planets[2].pos)

\* the channel holds one message more after the step
QueueGrows == Len(queue') = Len(queue) + 1

\* C18: the channel has no capacity: while the Receiver exists a producer at
\* its send can always add one more message, however many are queued, and
\* only a receive takes one away; so with the loop still running all the
\* events the producers ever sent can be queued at once
C18_QueueUnbounded ==
    /\ []((ProcessAlive /\ rxAlive /\ tickPc = "send")
            => ENABLED (TickSend /\ QueueGrows))
    /\ []((ProcessAlive /\ rxAlive /\ kbPc = "send")
            => ENABLED (KbSend /\ QueueGrows))
    /\ [][(Len(queue') < Len(queue) /\ rxAlive')
            => (ctrlPc = "recv" /\ Len(queue') = Len(queue) - 1)]_vars
    /\ [](Len(queue) <= keysSent + ticksSent)

\* the loop is running, nothing has been received, and everything the
\* producers can send within the bounds is queued
C18_Witness ==
    /\ InRun
    /\ recvd = [key |-> 0, ticker |-> 0]
    /\ Len(queue) = MaxKeys + MaxTicks + 1

\* the step on which App::run returns
RunEnds == InRun /\ ~InRun'

\* C19: run returns in one of three ways only: Ok from the loop test after a
\* press of 'q' has set exit; the error of a failed draw, at once and with
\* nothing more received or handled; the error of a failed recv, which needs
\* an empty channel without Senders. Handling an event never makes run
\* return an error.
C19_ThreeWaysOut ==
    /\ [][RunEnds =>
            \/ /\ runResult' = "ok"
               /\ ctrlPc = "handle"
               /\ IsQuitPress(cur)
               /\ exit'
            \/ /\ runResult' = "err_draw"
               /\ ctrlPc = "draw"
               /\ UNCHANGED << planets, exit, queue, cur, recvd, steps >>
            \/ /\ runResult' = "err_recv"
               /\ ctrlPc = "recv"
               /\ queue = << >>
               /\ Senders = {}
               /\ UNCHANGED << planets, exit, queue, cur, recvd, steps >>]_vars
    /\ [](InRun <=> runResult = "none")
    /\ [](runResult = "ok" <=> (exit /\ ~InRun))
    /\ [](exit => IsQuitPress(cur))
    /\ [][ctrlPc = "handle" => runResult' \in {"none", "ok"}]_vars
    /\ [][~InRun => UNCHANGED << planets, exit, cur, recvd, steps, runResult >>]_vars

\* run has returned the recv error after the press of another key was
\* handled without error, and the process has ended
C19_Witness ==
    /\ runResult = "err_recv"
    /\ ctrlPc = "exited"
    /\ cur = Key("Press", "x")
    /\ ~exit

\* a press of 'q' is in the channel while the loop runs
QuitQueued == InRun /\ \E i \in 1..Len(queue) : IsQuitPress(queue[i])

\* run has ended: with Ok, or with the error of a failed draw
RunOver == runResult \in {"ok", "err_draw"}

\* when run has returned Ok, what is still queued behind another event and
\* was never handled is no press of 'q'
NoQuitLeftBehind ==
    (runResult = "ok" /\ ctrlPc = "returned")
        => \A i \in 2..Len(queue) : ~IsQuitPress(queue[i])

\* C20 as stated: every press of 'q' enqueued while the loop runs is followed
\* by the end of run (unless a draw fails), and everything enqueued ahead of
\* that press has been handled by then
C20_Original ==
    /\ QuitQueued ~> RunOver
    /\ []NoQuitLeftBehind

\* C20: with fair scheduling and no failing draw, a press of 'q' enqueued
\* while the loop runs is followed by the end of run, and run ends on the
\* first press of 'q' received: by then every event enqueued ahead of that
\* first press has been handled, each tick with one physics step, and nothing
\* enqueued after it is ever received, a later press of 'q' included
C20_FirstQuitEndsRun ==
    /\ QuitQueued ~> RunOver
    /\ []((IsQuitPress(cur) /\ ctrlPc \in {"handle", "returned"})
            => /\ curId[1] = "key"
               /\ recvd.key = curId[2]
               /\ keysSent = recvd.key + CountSrc(qids, "key")
               /\ ticksSent = recvd.ticker + CountSrc(qids, "ticker")
               /\ StepsTaken = recvd.ticker
               /\ \A i \in 1..Len(qids) : qids[i][2] > recvd[qids[i][1]])
    /\ [][(HandleStep /\ IsQuitPress(cur))
            => (runResult' = "ok" /\ ctrlPc' = "returned" /\ exit')]_vars
    /\ [][runResult = "ok" => UNCHANGED << recvd, cur, curId, planets, steps >>]_vars

\* run has returned Ok on the first press of 'q', after a tick ahead of it
\* got its physics step; a tick and a second press of 'q' enqueued behind it
\* are still in the channel
C20_Witness ==
    /\ runResult = "ok"
    /\ ctrlPc = "returned"
    /\ curId = << "key", 1 >>
    /\ recvd.ticker >= 1
    /\ StepsTaken = recvd.ticker
    /\ Len(queue) >= 2
    /\ queue[1] = DrawInterrupt
    /\ IsQuitPress(queue[2])

====
